---- MODULE Spec2Model ----
(***************************************************************************)
(* Model of the obsidian-avif plugin (src/main.ts): the paste-to-embed     *)
(* pipeline (editor-paste handler, getAvifPasteFile and its two chained    *)
(* child processes, insertTemporaryText), the attachment path arithmetic   *)
(* (getFileAssetPath) and the placeholder replacement                      *)
(* (replaceFirstOccurrence).                                               *)
(***************************************************************************)
EXTENDS Integers, Sequences, FiniteSets, TLC

VARIABLES
    appVersion,   \* navigator.appVersion, as the set of markers it contains
    day,          \* the calendar day moment(new Date()) formats
    doc,          \* the editor's document, a sequence of items
    sel,          \* the editor's current selection [from, to]
    pastes,       \* one record per editor-paste event delivered so far
    tmp,          \* /tmp: raw file path -> the paste whose Job 1 wrote it
    rfDoc,        \* replaceFirstOccurrence: editor.getValue()
    rfTarget,     \* replaceFirstOccurrence: target
    rfOut,        \* replaceFirstOccurrence: document after the call
    rfCalls,      \* replaceFirstOccurrence: the replaceRange calls issued
    rfPc,         \* replaceFirstOccurrence: "init" | "done"
    basePath,     \* getFileAssetPath: adapter.getBasePath()
    assetFolder,  \* getFileAssetPath: vault.config.attachmentFolderPath
    parentPath,   \* getFileAssetPath: activeFile.parent.path
    assetResult,  \* getFileAssetPath: the value returned (or the error)
    gaPc          \* getFileAssetPath: "init" | "done"

vars == <<appVersion, day, doc, sel, pastes, tmp, rfDoc, rfTarget, rfOut,
          rfCalls, rfPc, basePath, assetFolder, parentPath, assetResult, gaPc>>

pipeVars == <<appVersion, day, doc, sel, pastes, tmp>>
rfVars == <<rfDoc, rfTarget, rfOut, rfCalls, rfPc>>
gaVars == <<basePath, assetFolder, parentPath, assetResult, gaPc>>

\* ---------------------------------------------------------------- bounds
MaxPastes == 2
MaxDay == 1
MaxDocLen == 4
MaxTargetLen == 2

\* ------------------------------------------------------ program constants
TokenLen == 7

Min(a, b) == IF a < b THEN a ELSE b

\* ------------------------------------------------------------ path model
\* A path is [abs |-> BOOLEAN, segs |-> sequence of components split on "/"].

RECURSIVE NormSegs(_, _, _)
NormSegs(abs, segs, acc) ==
    IF segs = <<>> THEN acc
    ELSE LET s == Head(segs)
             rest == Tail(segs)
         IN IF s = "." THEN NormSegs(abs, rest, acc)
            ELSE IF s = ".."
                 THEN IF Len(acc) > 0 /\ acc[Len(acc)] # ".."
                      THEN NormSegs(abs, rest, SubSeq(acc, 1, Len(acc) - 1))
                      ELSE IF abs THEN NormSegs(abs, rest, acc)
                           ELSE NormSegs(abs, rest, Append(acc, ".."))
                 ELSE NormSegs(abs, rest, Append(acc, s))

normalize(p) == [abs |-> p.abs, segs |-> NormSegs(p.abs, p.segs, <<>>)]

\* path.resolve(a, b) for an absolute a
resolve(a, b) ==
    IF b.abs THEN normalize(b)
    ELSE normalize([abs |-> a.abs, segs |-> a.segs \o b.segs])

\* path.join(a, b): b's leading "/" is only a separator
join(a, b) == normalize([abs |-> a.abs, segs |-> a.segs \o b.segs])

\* decodeURI on one path component ("/" is reserved and never produced)
decodeSeg(s) ==
    CASE s = "b%20c" -> "b c"
      [] s = "50%25" -> "50%"
      [] OTHER -> s

\* decodeURI throws URIError on a "%" that does not start an escape
Malformed(s) == s \in {"50%"}

IsErr(r) == "error" \in DOMAIN r

decodeURI(p) ==
    IF \E i \in 1..Len(p.segs) : Malformed(p.segs[i])
    THEN [error |-> "URIError"]
    ELSE [abs |-> p.abs, segs |-> [i \in 1..Len(p.segs) |-> decodeSeg(p.segs[i])]]

\* encodeURI on one path component
encodeSeg(s) ==
    CASE s = "b c" -> "b%20c"
      [] s = "b%20c" -> "b%2520c"
      [] s = "50%" -> "50%25"
      [] s = "50%25" -> "50%2525"
      [] OTHER -> s

encodeURI(p) == [abs |-> p.abs, segs |-> [i \in 1..Len(p.segs) |-> encodeSeg(p.segs[i])]]

\* String.prototype.startsWith("./") on the setting
startsWithDotSlash(f) == ~f.abs /\ Len(f.segs) >= 2 /\ f.segs[1] = "."

\* workspace.getActiveFile() returned null
NoActiveFile == [error |-> "null"]

getFileAssetPath(base, folder, parent) ==
    IF IsErr(parent) THEN [error |-> "TypeError"]
    ELSE IF startsWithDotSlash(folder)
         THEN LET activeFolder == decodeURI(resolve(base, parent))
              IN IF IsErr(activeFolder) THEN activeFolder
                 ELSE join(activeFolder, folder)
         ELSE join(base, folder)

\* getFileName: "file:///" + encodeURI(fn)
getFileName(fn) == [scheme |-> "file:///", path |-> encodeURI(fn)]

\* ------------------------------------------------------ clipboard classifier
Markers == {"Win", "Mac", "X11"}

getOS(av) ==
    IF "Win" \in av THEN "Windows"
    ELSE IF "Mac" \in av THEN "MacOS"
    ELSE IF "X11" \in av THEN "Linux"
    ELSE "Unknown OS"

\* extname(path).toLowerCase() on the extensions the model draws
toLowerCase(ext) ==
    CASE ext = ".PNG" -> ".png"
      [] OTHER -> ext

ImageExts == {".png", ".jpg", ".jpeg", ".bmp", ".gif", ".svg", ".tiff"}

isAssetTypeAnImage(ext) == toLowerCase(ext) \in ImageExts

\* ext: the extension of the clipboard's file name / file-url ("" when absent)
isCopyImageFile(os, ext) ==
    LET filePath == IF os = "Windows" THEN ext
                    ELSE IF os = "MacOS" THEN ext
                    ELSE ""
    IN isAssetTypeAnImage(filePath)

\* evt.clipboardData.files: <<>> or a list of declared MIME kinds
FileLists == {<<>>, <<"image">>, <<"text">>}
UrlExts == {"", ".PNG", ".txt"}

\* the platform test declining Windows only
ClassifyWindowsOnly(os, ext, files) ==
    IF os = "Windows" THEN "declined"
    ELSE IF isAssetTypeAnImage(ext) THEN "pasting"
    ELSE IF Len(files) # 0 THEN "pasting"
    ELSE "TypeError"

\* The decision of the editor-paste callback, before getAvifPasteFile runs.
\*   "declined"     the early return on a platform other than MacOS
\*   "pasting"      the "pasting image" branch
\*   "cannot paste" the else branch
\*   "TypeError"    files[0] is undefined and .type is read from it
Classify(os, ext, files) ==
    IF os # "MacOS" THEN "declined"
    ELSE IF isCopyImageFile(os, ext) THEN "pasting"
    ELSE IF Len(files) # 0 THEN "pasting"
    ELSE IF Len(files) = 0 THEN "TypeError"
    ELSE IF files[1] = "image" THEN "pasting"
    ELSE "cannot paste"

\* ------------------------------------------------------------ path resolver
\* (Math.random() + 1).toString(36) is "1", or "1." followed by the base-36
\* digits of the fraction; a draw is that digit sequence.
RandomDraws == {<<>>, <<18>>, <<1, 2, 3, 4, 5, 6, 7>>, <<1, 2, 3, 4, 5, 6, 7, 8>>}

\* .substr(2, 7): skip "1." and keep at most seven characters
substr2(draw) == SubSeq(draw, 1, Min(TokenLen, Len(draw)))

\* adapter.getName(), getBasePath(), attachmentFolderPath and the active
\* file's folder, as the pipeline sees them
VaultName == "vault"
VaultBase == [abs |-> TRUE, segs |-> <<"vault">>]
VaultAssetFolder == [abs |-> FALSE, segs |-> <<".", "att">>]
NoteFolder == [abs |-> FALSE, segs |-> <<"b c">>]

\* baseFile + timebase + token
randomPrefix(d, draw) == <<VaultName, d, substr2(draw)>>

\* "/tmp/" + pngPath
tmpPngPath(prefix) == [dir |-> "/tmp/", name |-> prefix, ext |-> ".png"]

\* getFileAssetPath() + "/" + avifPath
fullAvifPath(dir, prefix) ==
    [abs |-> dir.abs, segs |-> Append(dir.segs, <<prefix, ".avif">>)]

\* ------------------------------------------------------------ the pipeline
Jobs == {"job1", "job2"}

\* both execute calls made side by side instead of nested
SpawnedByHandlerBoth == {"job1", "job2"}

\* the jobs getAvifPasteFile starts itself, before it returns
SpawnedByHandler == {"job1"}

\* the jobs Job 1's completion callback starts; the callback ignores error
SpawnedByJob1Callback(error) == {"job2"}

\* whether Job 2's completion callback calls insertTemporaryText
EmbedsAfterJob2(error) == TRUE

\* execute called before the asset path is resolved
StartsJobsAlways(assetDir) == TRUE

\* getAvifPasteFile reaches its first execute only when getFileAssetPath,
\* called before it, returned
StartsJobs(assetDir) == ~IsErr(assetDir)

\* the cursor positions of a document of n items
Selections(n) == {[from |-> c, to |-> c] : c \in 0..n}

\* editor.replaceSelection(item): the document and the cursor after it
replaceSelection(d, s, item) ==
    [doc |-> SubSeq(d, 1, s.from) \o <<item>> \o SubSeq(d, s.to + 1, Len(d)),
     sel |-> [from |-> s.from + 1, to |-> s.from + 1]]

\* where a position of the old document lies after replaceSelection at s
ShiftPos(pos, s) ==
    IF pos <= s.from THEN pos
    ELSE IF pos >= s.to THEN pos - (s.to - s.from) + 1
    ELSE s.from + 1

\* a remembered range follows the cursor when it was the cursor
ShiftMark(m, s) ==
    IF m = s THEN [from |-> s.from + 1, to |-> s.from + 1]
    ELSE [from |-> ShiftPos(m.from, s), to |-> ShiftPos(m.to, s)]

AppVersions == {{"Mac"}, {"Win"}, {"X11"}, {}, {"Win", "Mac"}}

InitDoc == <<[text |-> "x"]>>

NoPng == tmpPngPath(<<>>)

PipeInit ==
    /\ appVersion \in AppVersions
    /\ day = 0
    /\ doc = InitDoc
    /\ sel = [from |-> 1, to |-> 1]
    /\ pastes = <<>>
    /\ tmp = {}

\* the record of one editor-paste event, as the callback leaves it
PasteRecord(os, files, ext, parent, draw, d, s) ==
    LET decision == Classify(os, ext, files)
        assetDir == getFileAssetPath(VaultBase, VaultAssetFolder, parent)
        prefix == randomPrefix(d, draw)
        pathError == decision = "pasting" /\ IsErr(assetDir)
        starts == decision = "pasting" /\ StartsJobs(assetDir)
        running == IF starts THEN SpawnedByHandler ELSE {}
    IN [decision |-> decision,
        hasActive |-> ~IsErr(parent),
        pathError |-> pathError,
        threw |-> decision = "TypeError" \/ pathError,
        prevented |-> decision = "pasting" /\ ~pathError,
        png |-> IF starts THEN tmpPngPath(prefix) ELSE NoPng,
        avif |-> IF starts /\ ~IsErr(assetDir)
                 THEN fullAvifPath(assetDir, prefix)
                 ELSE [abs |-> FALSE, segs |-> <<>>],
        running |-> running,
        spawned |-> [j \in Jobs |-> IF j \in running THEN 1 ELSE 0],
        cb |-> [j \in Jobs |-> "pending"],
        embeds |-> 0,
        failMarks |-> 0,
        mark |-> s,
        atMark |-> FALSE,
        encodedFrom |-> 0]

\* the editor-paste callback, getAvifPasteFile included
Paste(files, ext, parent, draw) ==
    /\ Len(pastes) < MaxPastes
    /\ pastes' = Append(pastes,
          PasteRecord(getOS(appVersion), files, ext, parent, draw, day, sel))
    /\ UNCHANGED <<appVersion, day, doc, sel, tmp>>

\* /tmp after pngpaste wrote the raw file of paste i
WriteTmp(t, path, i) ==
    {f \in t : f.path # path} \cup {[path |-> path, by |-> i]}

\* the paste whose Job 1 wrote the raw file at path, 0 when there is none
WriterOf(t, path) ==
    IF \E f \in t : f.path = path
    THEN (CHOOSE f \in t : f.path = path).by
    ELSE 0

\* pngpaste exits and exec runs Job 1's callback
Job1Done(i, ok) ==
    /\ i \in 1..Len(pastes)
    /\ "job1" \in pastes[i].running
    /\ LET p == pastes[i]
           error == ~ok
           more == SpawnedByJob1Callback(error)
       IN /\ tmp' = IF ok THEN WriteTmp(tmp, p.png, i) ELSE tmp
          /\ pastes' = [pastes EXCEPT ![i] =
                [p EXCEPT !.running = (p.running \ {"job1"}) \cup more,
                          !.cb["job1"] = IF ok THEN "ok" ELSE "error",
                          !.spawned = [j \in Jobs |->
                              IF j \in more THEN p.spawned[j] + 1 ELSE p.spawned[j]]]]
    /\ UNCHANGED <<appVersion, day, doc, sel>>

\* the encoder exits and exec runs Job 2's callback
Job2Done(i, ok) ==
    /\ i \in 1..Len(pastes)
    /\ "job2" \in pastes[i].running
    /\ LET p == pastes[i]
           error == ~ok
           src == WriterOf(tmp, p.png)
           embed == EmbedsAfterJob2(error)
           r == replaceSelection(doc, sel, [embed |-> getFileName(p.avif)])
       IN /\ ok => src # 0      \* the encoder cannot succeed without its input
          /\ doc' = IF embed THEN r.doc ELSE doc
          /\ sel' = IF embed THEN r.sel ELSE sel
          /\ pastes' = [k \in 1..Len(pastes) |->
                IF k = i
                THEN [p EXCEPT !.running = p.running \ {"job2"},
                               !.cb["job2"] = IF ok THEN "ok" ELSE "error",
                               !.embeds = IF embed THEN p.embeds + 1 ELSE p.embeds,
                               !.atMark = IF embed THEN sel = p.mark ELSE p.atMark,
                               !.mark = IF embed THEN ShiftMark(p.mark, sel) ELSE p.mark,
                               !.encodedFrom = IF ok THEN src ELSE p.encodedFrom]
                ELSE IF embed
                     THEN [pastes[k] EXCEPT !.mark = ShiftMark(pastes[k].mark, sel)]
                     ELSE pastes[k]]
    /\ UNCHANGED <<appVersion, day, tmp>>

\* the user moves the cursor
MoveSelection(s) ==
    /\ s \in Selections(Len(doc))
    /\ s # sel
    /\ sel' = s
    /\ UNCHANGED <<appVersion, day, doc, pastes, tmp>>

\* midnight passes
NextDay ==
    /\ day < MaxDay
    /\ day' = day + 1
    /\ UNCHANGED <<appVersion, doc, sel, pastes, tmp>>

\* -------------------------------------------------- replaceFirstOccurrence
Chars == {"a", "b", "\n"}

RECURSIVE SeqsOf(_, _)
SeqsOf(S, n) ==
    IF n = 0 THEN {<<>>}
    ELSE LET shorter == SeqsOf(S, n - 1)
         IN shorter \cup {Append(q, c) : q \in {x \in shorter : Len(x) = n - 1}, c \in S}

\* the replacement text; it holds no newline
Replacement == <<"R">>

\* String.prototype.split("\n")
RECURSIVE split(_, _)
split(text, cur) ==
    IF text = <<>> THEN <<cur>>
    ELSE IF Head(text) = "\n" THEN <<cur>> \o split(Tail(text), <<>>)
         ELSE split(Tail(text), Append(cur, Head(text)))

OccursAt(line, target, ch) ==
    /\ ch + Len(target) <= Len(line)
    /\ SubSeq(line, ch + 1, ch + Len(target)) = target

\* the last occurrence instead of the first
lastIndexOf(line, target) ==
    IF \E ch \in 0..Len(line) : OccursAt(line, target, ch)
    THEN CHOOSE ch \in 0..Len(line) :
            /\ OccursAt(line, target, ch)
            /\ \A c \in 0..Len(line) : OccursAt(line, target, c) => c <= ch
    ELSE -1

\* String.prototype.indexOf
indexOf(line, target) ==
    IF \E ch \in 0..Len(line) : OccursAt(line, target, ch)
    THEN CHOOSE ch \in 0..Len(line) :
            /\ OccursAt(line, target, ch)
            /\ \A c \in 0..Len(line) : OccursAt(line, target, c) => ch <= c
    ELSE -1

\* String.prototype.join("\n") of the editor's lines
RECURSIVE joinLines(_)
joinLines(lines) ==
    IF Len(lines) = 1 THEN lines[1]
    ELSE lines[1] \o <<"\n">> \o joinLines(Tail(lines))

\* editor.replaceRange(replacement, from, to) within one line
replaceRange(lines, replacement, call) ==
    [k \in 1..Len(lines) |->
        IF k = call.line + 1
        THEN SubSeq(lines[k], 1, call.from) \o replacement
             \o SubSeq(lines[k], call.to + 1, Len(lines[k]))
        ELSE lines[k]]

\* the for loop from line i on: the replaceRange calls it issues
RECURSIVE scanLines(_, _, _)
scanLines(lines, target, i) ==
    IF i >= Len(lines) THEN <<>>
    ELSE LET ch == indexOf(lines[i + 1], target)
         IN IF ch # -1
            THEN <<[line |-> i, from |-> ch, to |-> ch + Len(target)]>>
            ELSE scanLines(lines, target, i + 1)

RECURSIVE applyCalls(_, _)
applyCalls(lines, calls) ==
    IF calls = <<>> THEN lines
    ELSE applyCalls(replaceRange(lines, Replacement, Head(calls)), Tail(calls))

RfIdle ==
    /\ rfDoc = <<>>
    /\ rfTarget = <<>>
    /\ rfOut = <<>>
    /\ rfCalls = <<>>
    /\ rfPc = "idle"

RfInit ==
    /\ rfDoc \in SeqsOf(Chars, MaxDocLen)
    /\ rfTarget \in SeqsOf(Chars, MaxTargetLen)
    /\ rfOut = rfDoc
    /\ rfCalls = <<>>
    /\ rfPc = "init"

replaceFirstOccurrence ==
    /\ rfPc = "init"
    /\ LET lines == split(rfDoc, <<>>)
           calls == scanLines(lines, rfTarget, 0)
       IN /\ rfCalls' = calls
          /\ rfOut' = joinLines(applyCalls(lines, calls))
    /\ rfPc' = "done"
    /\ UNCHANGED <<rfDoc, rfTarget>>

\* ------------------------------------------------------- getFileAssetPath
BasePaths == {[abs |-> TRUE, segs |-> <<"vault">>],
              [abs |-> TRUE, segs |-> <<"home", "b%20c">>]}

FolderSettings == {[abs |-> FALSE, segs |-> <<".", "att">>],
                   [abs |-> FALSE, segs |-> <<"att">>],
                   [abs |-> FALSE, segs |-> <<"..", "att">>],
                   [abs |-> FALSE, segs |-> <<".", "..", "att">>],
                   [abs |-> FALSE, segs |-> <<".att", "img">>],
                   [abs |-> TRUE, segs |-> <<"att">>]}

ParentPaths == {NoActiveFile,
                [abs |-> TRUE, segs |-> <<>>],
                [abs |-> FALSE, segs |-> <<"notes">>],
                [abs |-> FALSE, segs |-> <<"notes", "b c">>],
                [abs |-> FALSE, segs |-> <<"b%20c">>],
                [abs |-> FALSE, segs |-> <<"50%">>],
                [abs |-> FALSE, segs |-> <<"50%25">>]}

NoResult == [error |-> "none"]

GaIdle ==
    /\ basePath = VaultBase
    /\ assetFolder = VaultAssetFolder
    /\ parentPath = NoteFolder
    /\ assetResult = NoResult
    /\ gaPc = "idle"

GaInit ==
    /\ basePath \in BasePaths
    /\ assetFolder \in FolderSettings
    /\ parentPath \in ParentPaths
    /\ assetResult = NoResult
    /\ gaPc = "init"

GetFileAssetPath ==
    /\ gaPc = "init"
    /\ assetResult' = getFileAssetPath(basePath, assetFolder, parentPath)
    /\ gaPc' = "done"
    /\ UNCHANGED <<basePath, assetFolder, parentPath>>

\* ---------------------------------------------------------- specifications
Init == PipeInit /\ RfIdle /\ GaIdle

PasteEvent ==
    \E files \in FileLists, ext \in UrlExts,
       parent \in {NoActiveFile, NoteFolder}, draw \in RandomDraws :
        Paste(files, ext, parent, draw)

Next ==
    \/ PasteEvent /\ UNCHANGED <<rfVars, gaVars>>
    \/ (\E i \in 1..MaxPastes, ok \in BOOLEAN : Job1Done(i, ok))
         /\ UNCHANGED <<rfVars, gaVars>>
    \/ (\E i \in 1..MaxPastes, ok \in BOOLEAN : Job2Done(i, ok))
         /\ UNCHANGED <<rfVars, gaVars>>
    \/ NextDay /\ UNCHANGED <<rfVars, gaVars>>

Spec == Init /\ [][Next]_vars

\* the pipeline with the user moving the cursor meanwhile
NextEdit ==
    \/ Next
    \/ (\E s \in Selections(Len(doc)) : MoveSelection(s))
         /\ UNCHANGED <<rfVars, gaVars>>

SpecEdit == Init /\ [][NextEdit]_vars

PipeIdle ==
    /\ appVersion = {"Mac"}
    /\ day = 0
    /\ doc = InitDoc
    /\ sel = [from |-> 1, to |-> 1]
    /\ pastes = <<>>
    /\ tmp = {}

InitReplace == PipeIdle /\ RfInit /\ GaIdle

NextReplace == replaceFirstOccurrence /\ UNCHANGED <<pipeVars, gaVars>>

SpecReplace == InitReplace /\ [][NextReplace]_vars

InitPath == PipeIdle /\ RfIdle /\ GaInit

NextPath == GetFileAssetPath /\ UNCHANGED <<pipeVars, rfVars>>

SpecPath == InitPath /\ [][NextPath]_vars

\* ------------------------------------------------------------------ claims
Max(S) == CHOOSE x \in S : \A y \in S : y <= x

NoJobs(p) ==
    /\ p.running = {}
    /\ \A j \in Jobs : p.spawned[j] = 0

\* C1: for every paste, if Job 1 (the pngpaste dump) completes with a nonzero
\* exit status or an execution error, Job 2 (the encoder) is never spawned for
\* that paste.
C1_Job2NotSpawnedAfterJob1Failure ==
    \A i \in 1..Len(pastes) :
        pastes[i].cb["job1"] = "error" => pastes[i].spawned["job2"] = 0

\* C2: for every accepted paste, if either external process fails, the
\* document never receives the embed for that paste and the failure marker is
\* written at the mutation target exactly once.
C2_FailureAbortsBeforeEmbed ==
    \A i \in 1..Len(pastes) :
        (pastes[i].cb["job1"] = "error" \/ pastes[i].cb["job2"] = "error") =>
            /\ pastes[i].embeds = 0
            /\ pastes[i].failMarks <= 1
            /\ pastes[i].running = {} => pastes[i].failMarks = 1

\* C3: on every platform other than MacOS a paste event is declined whatever
\* the clipboard holds: no process is spawned, the document is not mutated,
\* the default paste is not prevented and no error is raised.
C3_NonMacDeclined ==
    getOS(appVersion) # "MacOS" =>
        /\ doc = InitDoc
        /\ tmp = {}
        /\ \A i \in 1..Len(pastes) :
              /\ pastes[i].decision = "declined"
              /\ NoJobs(pastes[i])
              /\ pastes[i].embeds = 0
              /\ pastes[i].failMarks = 0
              /\ ~pastes[i].prevented
              /\ ~pastes[i].threw

C3_Witness ==
    /\ getOS(appVersion) \in {"Linux", "Unknown OS", "Windows"}
    /\ Len(pastes) >= 2

\* C4: on MacOS, a paste whose clipboard file list is empty and whose file-url
\* has no recognized image extension takes the "cannot paste" branch, spawns
\* no process and raises no error.
C4_EmptyFileListCannotPaste ==
    [][\A ext \in UrlExts, parent \in {NoActiveFile, NoteFolder}, draw \in RandomDraws :
          ( /\ getOS(appVersion) = "MacOS"
            /\ ~isAssetTypeAnImage(ext)
            /\ Paste(<<>>, ext, parent, draw) )
          => LET r == pastes'[Len(pastes')]
             IN /\ r.decision = "cannot paste"
                /\ ~r.threw
                /\ NoJobs(r)]_vars

\* C5: any two accepted pastes whose pipelines overlap in time have distinct
\* temporary raw paths, and no paste's Job 2 encodes a raw file written by
\* another paste's Job 1.
C5_CrossPasteIsolation ==
    /\ \A i, j \in 1..Len(pastes) :
          (i # j /\ pastes[i].running # {} /\ pastes[j].running # {})
              => pastes[i].png # pastes[j].png
    /\ \A i \in 1..Len(pastes) : pastes[i].encodedFrom \in {0, i}

\* C6: on a successful paste the embed is inserted at the selection that was
\* current when the paste event fired, even if the selection changes while
\* the two external processes run.
C6_EmbedAtOriginalSelection ==
    \A i \in 1..Len(pastes) :
        ( /\ pastes[i].embeds >= 1
          /\ pastes[i].cb["job1"] = "ok"
          /\ pastes[i].cb["job2"] = "ok" ) => pastes[i].atMark

\* C7: replaceFirstOccurrence issues exactly one replaceRange, over the span
\* of the first occurrence of target on the first line that contains it, and
\* leaves every other character unchanged; if no line contains target the
\* document is unchanged and no replaceRange is issued.
NoNewline(t) == \A k \in 1..Len(t) : t[k] # "\n"

SomeLineContains(text, target) ==
    /\ NoNewline(target)
    /\ \E o \in 0..Len(text) : OccursAt(text, target, o)

FirstOffset(text, target) ==
    CHOOSE o \in 0..Len(text) :
        /\ OccursAt(text, target, o)
        /\ \A q \in 0..Len(text) : OccursAt(text, target, q) => o <= q

LineOf(text, o) == Cardinality({k \in 1..o : text[k] = "\n"})

ColOf(text, o) == o - Max({0} \cup {k \in 1..o : text[k] = "\n"})

C7_ReplacesFirstOccurrenceOnly ==
    rfPc = "done" =>
        IF SomeLineContains(rfDoc, rfTarget)
        THEN LET o == FirstOffset(rfDoc, rfTarget)
                 n == Len(rfTarget)
             IN /\ rfCalls = <<[line |-> LineOf(rfDoc, o),
                                from |-> ColOf(rfDoc, o),
                                to |-> ColOf(rfDoc, o) + n]>>
                /\ rfOut = SubSeq(rfDoc, 1, o) \o Replacement
                           \o SubSeq(rfDoc, o + n + 1, Len(rfDoc))
        ELSE /\ rfCalls = <<>>
             /\ rfOut = rfDoc

\* a duplicate of the target survives below the first line
C7_Witness ==
    /\ rfPc = "done"
    /\ Len(rfTarget) >= 1
    /\ Len(rfCalls) = 1
    /\ rfCalls[1].line >= 1
    /\ \E o \in 0..Len(rfOut) : OccursAt(rfOut, rfTarget, o)

\* C8: for a setting that starts with "./" the resolved attachment directory
\* is resolve(activeDocumentFolder, setting); for every other setting it is
\* join(rootPath, setting).
C8_ResolutionBranch ==
    (gaPc = "done" /\ ~IsErr(parentPath)) =>
        IF startsWithDotSlash(assetFolder)
        THEN assetResult = resolve(resolve(basePath, parentPath), assetFolder)
        ELSE assetResult = join(basePath, assetFolder)

\* C9: if no active document is open when an image paste is accepted on
\* MacOS, path resolution fails with an error first: neither job is spawned
\* and the document is not mutated for that paste.
C9_NoActiveFileAborts ==
    \A i \in 1..Len(pastes) :
        (pastes[i].decision = "pasting" /\ ~pastes[i].hasActive) =>
            /\ pastes[i].threw
            /\ NoJobs(pastes[i])
            /\ pastes[i].embeds = 0
            /\ pastes[i].failMarks = 0

C9_Witness ==
    \E i, j \in 1..Len(pastes) :
        /\ pastes[i].decision = "pasting" /\ ~pastes[i].hasActive
        /\ pastes[j].embeds = 1

\* C10: within one paste Job 2 is spawned only after Job 1's callback fired,
\* the mutation happens only after Job 2's callback fired, the jobs never
\* overlap, and each of Job 1, Job 2 and the mutation occurs at most once.
C10_StagesStrictlyForward ==
    \A i \in 1..Len(pastes) :
        LET p == pastes[i]
        IN /\ \A j \in Jobs : p.spawned[j] <= 1
           /\ p.embeds <= 1
           /\ Cardinality(p.running) <= 1
           /\ p.spawned["job2"] >= 1 => p.cb["job1"] # "pending"
           /\ p.cb["job2"] # "pending" => p.cb["job1"] # "pending"
           /\ p.embeds >= 1 => p.cb["job2"] # "pending"

C10_Witness ==
    \E i \in 1..Len(pastes) :
        /\ pastes[i].embeds = 1
        /\ pastes[i].running = {}
        /\ pastes[i].spawned = [j \in Jobs |-> 1]

====
